---- MODULE Spec2Model ----
(***************************************************************************)
(* State-machine model of tinygrad/runtime/ops_gpu.py: the OpenCL backend  *)
(* (compile_cl, CLProgram, CLAllocator, CLDevice) on top of a driver whose *)
(* calls return a status and whose command queues complete asynchronously. *)
(***************************************************************************)
EXTENDS Integers, Sequences, FiniteSets, TLC

\* ---------------------------------------------------------------- bounds
MaxOps == 4          \* operations the caller issues in one run
MaxArgs == 2         \* positional arguments of one invocation
MaxDim == 2          \* largest extent of one dimension of a size tuple

\* ------------------------------------------------------- driver universe
DriverDeviceIds == <<1, 2>>                 \* device ids the driver enumerates
NumDriverDevices == Len(DriverDeviceIds)
NullId == 0                                 \* a NULL cl_device_id (line 93 zero-fills)
Sources == {"k1", "bad"}                    \* kernel source texts
Spans == {"h1", "h2"}                       \* host spans given to copyin
OutSpans == {"o1"}                          \* host spans given to copyout
Status == {0, -5}                           \* CL_SUCCESS, CL_OUT_OF_RESOURCES
\* device strings as character sequences: "GPU", "GPU:0", "GPU:1", "GPU:2"
DeviceStrings == {<<"G">>, <<"G", ":", "0">>, <<"G", ":", "1">>, <<"G", ":", "2">>}

VARIABLES
  device_ids,        \* CLDevice.device_ids
  compiler_context,  \* CLDevice.compiler_context: 0 is None, else a device object
  ndev,              \* device objects created so far (construction attempts)
  dev,               \* attributes of each device object
  pending_copyin,    \* pending_copyin of each device object
  cmdq,              \* the driver's command queue of each device object
  filled,            \* host spans whose device-to-host read has completed
  cache,             \* the persistent compile cache behind @diskcache
  nprog,             \* CLProgram objects created so far
  prog,              \* attributes of each CLProgram object
  handles,           \* driver handles of each CLProgram: "none", "live", "released"
  nops,              \* operations issued so far
  launch,            \* the global_size and local_size the caller invokes programs with
  pc,                \* where the caller thread is blocked, or "idle"
  calls,             \* driver calls issued by the current / last operation
  result             \* how the last operation ended

vars == <<device_ids, compiler_context, ndev, dev, pending_copyin, cmdq, filled,
          cache, nprog, prog, handles, nops, launch, pc, calls, result>>

devvars == <<device_ids, compiler_context, ndev, dev>>
memvars == <<pending_copyin, cmdq, filled>>
progvars == <<nprog, prog, handles>>

Range(s) == {s[i] : i \in 1..Len(s)}
Last(s) == s[Len(s)]

\* ------------------------------------------------------ status translator
\* check(status): TRUE when it raises RuntimeError("OpenCL Error <status>")
check(status) == status # 0

\* one driver call in the log: its name, its arguments, the status it returned
\* and whether the call site passes that status to check / checked
Call(fn, arg, st, chk) == [fn |-> fn, arg |-> arg, st |-> st, chk |-> chk]

\* the calls of `plan` that are issued: the first checked call whose status makes
\* check raise ends the operation
RECURSIVE Issue(_)
Issue(plan) ==
  IF plan = <<>> THEN <<>>
  ELSE IF plan[1].chk /\ check(plan[1].st) THEN <<plan[1]>>
  ELSE <<plan[1]>> \o Issue(Tail(plan))

Raised(log) == log # <<>> /\ Last(log).chk /\ check(Last(log).st)

Outcome(op, exc, val) == [op |-> op, exc |-> exc, val |-> val]
DriverError(log) == Last(log).st

Idle == [at |-> "idle", d |-> 0, op |-> "-", span |-> "-"]

\* the caller starts an operation: it is not inside a blocking call
Begin == pc = Idle /\ nops < MaxOps /\ nops' = nops + 1 /\ UNCHANGED launch

\* ------------------------------------------------------------------ Init
\* an optional tuple: local_size=None or a tuple
None == [some |-> FALSE, v |-> <<>>]
Some(t) == [some |-> TRUE, v |-> t]
Launch(global_size, local_size) == [global_size |-> global_size, local_size |-> local_size]
OneByOne == Launch(<<1>>, None)
NoDev == [device_id |-> NullId, context |-> FALSE, queue |-> FALSE, ready |-> FALSE]
Binary(src) == <<"bin", src>>
NoBytes == <<>>
\* the driver cannot build the source "bad": CL_BUILD_PROGRAM_FAILURE
BuildStatus(src) == IF src = "bad" THEN -11 ELSE 0
BuildLog(src) == <<"log", src>>

InitWith(launches) ==
  /\ launch \in launches
  /\ device_ids = [set |-> FALSE, ids |-> <<>>]
  /\ compiler_context = 0
  /\ ndev = 0
  /\ dev = [d \in 1..MaxOps |-> NoDev]
  /\ pending_copyin = [d \in 1..MaxOps |-> <<>>]
  /\ cmdq = [d \in 1..MaxOps |-> <<>>]
  /\ filled = {}
  \* the cache outlives the process: it may already hold what an earlier
  \* process compiled
  /\ cache \in {c \in [Sources -> {NoBytes} \cup {Binary(s) : s \in Sources}] :
                  \A s \in Sources : c[s] # NoBytes => (c[s] = Binary(s) /\ BuildStatus(s) = 0)}
  /\ nprog = 0
  /\ prog = [p \in 1..MaxOps |-> [device |-> 0, vars |-> 0, state |-> "none"]]
  /\ handles = [p \in 1..MaxOps |-> [program |-> "none", kernel |-> "none"]]
  /\ nops = 0
  /\ pc = Idle
  /\ calls = <<>>
  /\ result = Outcome("init", "None", <<>>)

Init == InitWith({OneByOne})

\* ------------------------------------------------------- CLDevice.__init__
\* 0 if ":" not in device else int(device.split(":")[1])
Digit(c) == CASE c = "0" -> 0 [] c = "1" -> 1 [] c = "2" -> 2
DeviceIndex(device) ==
  IF ":" \notin Range(device) THEN 0
  ELSE Digit(device[(CHOOSE i \in 1..Len(device) : device[i] = ":") + 1])

\* the four enumeration calls of lines 90-94, with the statuses st[1..4]
EnumPlan(st) ==
  << Call("clGetPlatformIDs", [n |-> 0], st[1], TRUE),
     Call("clGetPlatformIDs", [n |-> 1], st[2], TRUE),
     Call("clGetDeviceIDs", [n |-> 0], st[3], TRUE),
     Call("clGetDeviceIDs", [n |-> NumDriverDevices], st[4], TRUE) >>

\* CLDevice.device_ids after the enumeration calls in `log` (line 93 assigns the
\* array before line 94 fills it)
DeviceIdsAfter(log) ==
  IF Len(log) < 4 THEN device_ids
  ELSE IF check(log[4].st) THEN [set |-> TRUE, ids |-> [i \in 1..NumDriverDevices |-> NullId]]
  ELSE [set |-> TRUE, ids |-> DriverDeviceIds]

\* the driver refuses a context on a NULL device id
ContextStatus(id, st) == IF id = NullId THEN -33 ELSE st

\* line 97
ElectCompilerContext(d) == IF compiler_context = 0 THEN d ELSE compiler_context

\* variant: every construction repeats the enumeration
EnumerateAlways(st) == Issue(EnumPlan(st))

\* line 89: the enumeration calls are made only while device_ids is None
Enumerate(st) == IF device_ids.set THEN <<>> ELSE Issue(EnumPlan(st))

NewDevice(device, st) ==
  /\ Begin
  /\ LET d == ndev + 1
         enum == Enumerate(st)
         ids == DeviceIdsAfter(enum)
         idx == DeviceIndex(device)
     IN
     /\ ndev' = d
     /\ device_ids' = ids
     /\ UNCHANGED <<memvars, progvars, cache, pc>>
     /\ IF Raised(enum)
        THEN /\ calls' = enum
             /\ result' = Outcome("CLDevice", "OpenCL Error", <<DriverError(enum)>>)
             /\ UNCHANGED <<dev, compiler_context>>
        ELSE IF idx + 1 > Len(ids.ids)
        THEN /\ calls' = enum
             /\ result' = Outcome("CLDevice", "IndexError", <<>>)
             /\ UNCHANGED <<dev, compiler_context>>
        ELSE
          LET id == ids.ids[idx + 1]
              ctx == <<Call("clCreateContext", [id |-> id], ContextStatus(id, st[5]), TRUE)>>
              que == <<Call("clCreateCommandQueue", [id |-> id], st[6], TRUE)>>
          IN
          IF Raised(ctx)
          THEN /\ calls' = enum \o ctx
               /\ result' = Outcome("CLDevice", "OpenCL Error", <<DriverError(ctx)>>)
               /\ dev' = [dev EXCEPT ![d] = [@ EXCEPT !.device_id = id]]
               /\ UNCHANGED compiler_context
          ELSE
            /\ compiler_context' = ElectCompilerContext(d)
            /\ calls' = enum \o ctx \o que
            /\ IF Raised(que)
               THEN /\ result' = Outcome("CLDevice", "OpenCL Error", <<DriverError(que)>>)
                    /\ dev' = [dev EXCEPT ![d] =
                                 [device_id |-> id, context |-> TRUE, queue |-> FALSE, ready |-> FALSE]]
               ELSE /\ result' = Outcome("CLDevice", "None", <<d>>)
                    /\ dev' = [dev EXCEPT ![d] =
                                 [device_id |-> id, context |-> TRUE, queue |-> TRUE, ready |-> TRUE]]

\* ------------------------------------------------------------ compile_cl
\* variant: the log is never fetched
BuildLogTextUnfetched(src, st) == <<>>

\* lines 25-27: the text put in the compile error. log_size stays 0 when the size
\* query (status st[2]) fails; the buffer stays zeroed when the fetch (st[3]) fails
BuildLogText(src, st) ==
  IF st[2] # 0 THEN <<>>
  ELSE IF st[3] # 0 THEN <<"zeros">> ELSE BuildLog(src)

\* the body of compile_cl (lines 20-34), run on a cache miss
CompileBody(src, st) ==
  IF compiler_context = 0
  THEN [log |-> <<>>, out |-> Outcome("compile_cl", "AssertionError", NoBytes)]
  ELSE
    LET cc == dev[compiler_context]
        create == <<Call("clCreateProgramWithSource", [src |-> src], st[1], TRUE)>>
        build == <<Call("clBuildProgram", [src |-> src], BuildStatus(src), FALSE)>>
        logq == << Call("clGetProgramBuildInfo", [n |-> 0], st[2], FALSE),
                   Call("clGetProgramBuildInfo", [n |-> 1], st[3], FALSE) >>
        text == BuildLogText(src, st)
        rest == Issue(<< Call("clGetProgramInfo", [n |-> 0], st[2], TRUE),
                         Call("clGetProgramInfo", [n |-> 1], st[3], TRUE),
                         Call("clReleaseProgram", [src |-> src], st[4], TRUE) >>)
    IN
    IF Raised(create)
    THEN [log |-> create, out |-> Outcome("compile_cl", "OpenCL Error", <<DriverError(create)>>)]
    ELSE IF build[1].st # 0
    THEN [log |-> create \o build \o logq,
          out |-> Outcome("compile_cl", "OpenCL Compile Error", text)]
    ELSE IF Raised(rest)
    THEN [log |-> create \o build \o rest,
          out |-> Outcome("compile_cl", "OpenCL Error", <<DriverError(rest)>>)]
    ELSE [log |-> create \o build \o rest,
          out |-> Outcome("compile_cl", "None", Binary(src))]

\* the persistent cache behind @diskcache, keyed by the exact source text
CacheHit(src) == cache[src] # NoBytes
CacheGet(src) == cache[src]
CachePut(src, bytes) == [cache EXCEPT ![src] = bytes]

\* variant: compile_cl without its decorator, the body runs on every call
CompileUncached(src, st) ==
  /\ Begin
  /\ UNCHANGED <<devvars, memvars, progvars, pc, cache>>
  /\ LET r == CompileBody(src, st) IN
     /\ calls' = r.log
     /\ result' = r.out

\* line 18, @diskcache: a hit returns the stored bytes without running the body;
\* a miss runs the body and stores what it returns
Compile(src, st) ==
  /\ Begin
  /\ UNCHANGED <<devvars, memvars, progvars, pc>>
  /\ IF CacheHit(src)
     THEN /\ calls' = <<>>
          /\ result' = Outcome("compile_cl", "None", CacheGet(src))
          /\ UNCHANGED cache
     ELSE LET r == CompileBody(src, st) IN
          /\ calls' = r.log
          /\ result' = r.out
          /\ cache' = IF r.out.exc = "None" THEN CachePut(src, r.out.val) ELSE cache

\* ----------------------------------------------------------- CLAllocator
\* an element type: image or not, its itemsize and (for images) its shape
DType(image, itemsize, shape) == [image |-> image, itemsize |-> itemsize, shape |-> shape]
DTypes == {DType(FALSE, 4, <<>>), DType(FALSE, 1, <<>>), DType(TRUE, 2, <<1, 2>>),
           DType(TRUE, 4, <<2, 1>>), DType(TRUE, 1, <<1, 1>>)}
Sizes == {1, 2}

\* variant: the two channel types exchanged
ImageFormatSwapped(itemsize) ==
  CASE itemsize = 2 -> "CL_FLOAT" [] itemsize = 4 -> "CL_HALF_FLOAT" [] OTHER -> "KeyError"

\* {2: cl.CL_HALF_FLOAT, 4: cl.CL_FLOAT}[dtype.itemsize]; "KeyError" when absent
ImageFormat(itemsize) ==
  CASE itemsize = 2 -> "CL_HALF_FLOAT" [] itemsize = 4 -> "CL_FLOAT" [] OTHER -> "KeyError"

\* the driver call _alloc makes for (size, dtype)
AllocCall(size, dtype, st) ==
  IF dtype.image
  THEN Call("clCreateImage2D",
            [order |-> "CL_RGBA", type |-> ImageFormat(dtype.itemsize),
             width |-> dtype.shape[2], height |-> dtype.shape[1]], st, TRUE)
  ELSE Call("clCreateBuffer", [bytes |-> size * dtype.itemsize], st, TRUE)

\* the memory handles the driver hands out
MemHandles == {1, 2}

Alloc(d, size, dtype, buf, st) ==
  /\ Begin
  /\ dev[d].ready
  /\ UNCHANGED <<devvars, progvars, cache, pc, pending_copyin, cmdq, filled>>
  /\ IF dtype.image /\ ImageFormat(dtype.itemsize) = "KeyError"
     THEN /\ calls' = <<>>
          /\ result' = Outcome("_alloc", "KeyError", <<dtype.itemsize>>)
     ELSE LET log == <<AllocCall(size, dtype, st)>> IN
          /\ calls' = log
          /\ IF Raised(log)
             THEN result' = Outcome("_alloc", "OpenCL Error", <<DriverError(log)>>)
             ELSE result' = Outcome("_alloc", "None", <<buf>>)

Free(d, buf, st) ==
  /\ Begin
  /\ dev[d].ready
  /\ UNCHANGED <<devvars, progvars, cache, pc, pending_copyin, cmdq, filled>>
  /\ LET log == <<Call("clReleaseMemObject", [buf |-> buf], st, TRUE)>> IN
     /\ calls' = log
     /\ IF Raised(log)
        THEN result' = Outcome("_free", "OpenCL Error", <<DriverError(log)>>)
        ELSE result' = Outcome("_free", "None", <<>>)

\* commands in a driver queue
Cmd(kind, span, event) == [kind |-> kind, span |-> span, event |-> event]

PrependPending(list, src) == <<src>> \o list

\* line 80: self.device.pending_copyin.append(src)
AppendPending(list, src) == Append(list, src)

CopyIn(d, dest, src, st) ==
  /\ Begin
  /\ dev[d].ready
  /\ UNCHANGED <<devvars, progvars, cache, pc, filled>>
  /\ LET log == <<Call("clEnqueueWriteBuffer", [queue |-> d, dest |-> dest, span |-> src, blocking |-> FALSE],
                       st, TRUE)>> IN
     /\ calls' = log
     /\ IF Raised(log)
        THEN /\ result' = Outcome("copyin", "OpenCL Error", <<DriverError(log)>>)
             /\ UNCHANGED <<pending_copyin, cmdq>>
        ELSE /\ result' = Outcome("copyin", "None", <<>>)
             /\ cmdq' = [cmdq EXCEPT ![d] = Append(@, Cmd("write", src, FALSE))]
             /\ pending_copyin' = [pending_copyin EXCEPT ![d] = AppendPending(@, src)]

\* the caller is inside clFinish of device d's queue, on behalf of `op`
InFinish(d, op, span) == [at |-> "clFinish", d |-> d, op |-> op, span |-> span]

\* copyout that returns as soon as the read is enqueued
CopyOutNoSynchronize(d, dest, src, st) ==
  /\ Begin
  /\ dev[d].ready
  /\ UNCHANGED <<devvars, progvars, cache, pending_copyin, pc>>
  /\ LET log == <<Call("clEnqueueReadBuffer", [queue |-> d, src |-> src, span |-> dest, blocking |-> FALSE],
                       st, TRUE)>> IN
     /\ calls' = log
     /\ IF Raised(log)
        THEN /\ result' = Outcome("copyout", "OpenCL Error", <<DriverError(log)>>)
             /\ UNCHANGED <<cmdq, filled>>
        ELSE /\ result' = Outcome("copyout", "None", <<>>)
             /\ cmdq' = [cmdq EXCEPT ![d] = Append(@, Cmd("read", dest, FALSE))]
             /\ filled' = filled \ {dest}

\* lines 82-83: enqueue the read, then self.device.synchronize()
CopyOut(d, dest, src, st) ==
  /\ Begin
  /\ dev[d].ready
  /\ UNCHANGED <<devvars, progvars, cache, pending_copyin>>
  /\ LET log == <<Call("clEnqueueReadBuffer", [queue |-> d, src |-> src, span |-> dest, blocking |-> FALSE],
                       st, TRUE)>> IN
     /\ calls' = log
     /\ IF Raised(log)
        THEN /\ result' = Outcome("copyout", "OpenCL Error", <<DriverError(log)>>)
             /\ UNCHANGED <<cmdq, filled, pc>>
        ELSE /\ result' = Outcome("copyout", "running", <<>>)
             /\ cmdq' = [cmdq EXCEPT ![d] = Append(@, Cmd("read", dest, FALSE))]
             /\ filled' = filled \ {dest}
             /\ pc' = InFinish(d, "copyout", dest)

\* ---------------------------------------------------- CLDevice.synchronize
Synchronize(d) ==
  /\ Begin
  /\ dev[d].ready
  /\ UNCHANGED <<devvars, progvars, cache, memvars>>
  /\ calls' = <<>>
  /\ result' = Outcome("synchronize", "running", <<>>)
  /\ pc' = InFinish(d, "synchronize", "-")

\* clFinish returns success only once the queue has drained; it can report a
\* failure at any time
FinishCanReturn(q, st) == st # 0 \/ q = <<>>

PendingClearedAnyway(list, st) == <<>>

\* lines 102-103: check(cl.clFinish(self.queue)); self.pending_copyin.clear()
PendingAfterFinish(list, st) == IF check(st) THEN list ELSE <<>>

FinishReturn(st) ==
  /\ pc.at = "clFinish"
  /\ FinishCanReturn(cmdq[pc.d], st)
  /\ UNCHANGED <<devvars, progvars, cache, cmdq, filled, nops, launch>>
  /\ LET log == <<Call("clFinish", [d |-> pc.d], st, TRUE)>> IN
     /\ calls' = calls \o log
     /\ pending_copyin' = [pending_copyin EXCEPT ![pc.d] = PendingAfterFinish(@, st)]
     /\ result' = IF Raised(log) THEN Outcome(pc.op, "OpenCL Error", <<DriverError(log)>>)
                  ELSE Outcome(pc.op, "None", <<>>)
     /\ pc' = Idle

\* ------------------------------------------------------------- the driver
\* the device finishes the oldest command of a queue (FIFO)
DriverComplete(d) ==
  /\ cmdq[d] # <<>>
  /\ cmdq' = [cmdq EXCEPT ![d] = Tail(@)]
  /\ filled' = IF Head(cmdq[d]).kind = "read" THEN filled \cup {Head(cmdq[d]).span} ELSE filled
  /\ UNCHANGED <<devvars, progvars, cache, pending_copyin, nops, launch, pc, calls, result>>

\* --------------------------------------------------------------- CLProgram
\* lines 38-45
NewProgram(d, nvars, st) ==
  /\ Begin
  /\ dev[d].ready
  /\ LET p == nprog + 1
         create == <<Call("clCreateProgramWithBinary", [binary_status |-> st[2]], st[1], TRUE)>>
         rest == Issue(<< Call("clBuildProgram", [p |-> p], st[3], TRUE),
                          Call("clCreateKernel", [p |-> p], st[4], TRUE) >>)
     IN
     /\ nprog' = p
     /\ UNCHANGED <<devvars, memvars, cache, pc>>
     /\ IF Raised(create)
        THEN /\ calls' = create
             /\ result' = Outcome("CLProgram", "OpenCL Error", <<DriverError(create)>>)
             /\ prog' = [prog EXCEPT ![p] = [device |-> d, vars |-> 0, state |-> "failed"]]
             /\ UNCHANGED handles
        ELSE IF check(st[2])
        THEN /\ calls' = create
             /\ result' = Outcome("CLProgram", "OpenCL Error", <<st[2]>>)
             /\ prog' = [prog EXCEPT ![p] = [device |-> d, vars |-> 0, state |-> "failed"]]
             /\ handles' = [handles EXCEPT ![p].program = "live"]
        ELSE IF Raised(rest)
        THEN /\ calls' = create \o rest
             /\ result' = Outcome("CLProgram", "OpenCL Error", <<DriverError(rest)>>)
             /\ prog' = [prog EXCEPT ![p] = [device |-> d, vars |-> 0, state |-> "failed"]]
             /\ handles' = [handles EXCEPT ![p].program = "live"]
        ELSE /\ calls' = create \o rest
             /\ result' = Outcome("CLProgram", "None", <<p>>)
             /\ prog' = [prog EXCEPT ![p] = [device |-> d, vars |-> nvars, state |-> "ok"]]
             /\ handles' = [handles EXCEPT ![p] = [program |-> "live", kernel |-> "live"]]

\* a release the driver accepts frees the handle
Released(h, st) == IF st = 0 THEN "released" ELSE h

\* lines 47-49: __del__; self.kernel is missing when __init__ raised
Destroy(p, st) ==
  /\ Begin
  /\ prog[p].state \in {"ok", "failed"}
  /\ UNCHANGED <<devvars, memvars, cache, pc, nprog>>
  /\ prog' = [prog EXCEPT ![p].state = "deleted"]
  /\ IF handles[p].kernel = "none"
     THEN /\ calls' = <<>>
          /\ result' = Outcome("__del__", "AttributeError", <<>>)
          /\ UNCHANGED handles
     ELSE LET log == Issue(<< Call("clReleaseKernel", [p |-> p], st[1], TRUE),
                              Call("clReleaseProgram", [p |-> p], st[2], TRUE) >>) IN
          /\ calls' = log
          /\ result' = IF Raised(log) THEN Outcome("__del__", "OpenCL Error", <<DriverError(log)>>)
                       ELSE Outcome("__del__", "None", <<>>)
          /\ handles' = [handles EXCEPT ![p] =
                [kernel |-> Released(@.kernel, log[1].st),
                 program |-> IF Len(log) = 2 THEN Released(@.program, log[2].st) ELSE @.program]]

Min(a, b) == IF a < b THEN a ELSE b

Unscaled(global_size, local_size) == global_size

\* line 55: tuple(int(g*l) for g,l in zip(global_size, local_size))
ZipProduct(global_size, local_size) ==
  [i \in 1..Min(Len(global_size), Len(local_size)) |-> global_size[i] * local_size[i]]
EffectiveGlobal(global_size, local_size) ==
  IF local_size.some THEN ZipProduct(global_size, local_size.v) ELSE global_size

\* line 57: (c_size_t * len(local_size))(*local_size) if local_size else None
LocalArray(local_size) ==
  IF local_size.some /\ local_size.v # <<>> THEN local_size ELSE None

\* variant: the scalar arguments start one index late
ArgKindOffByOne(i, n, nvars) == IF i > n - nvars THEN "c_int32" ELSE "cl_mem"

\* line 53: how argument i of n is bound by a program with nvars scalars
ArgKind(i, n, nvars) == IF i >= n - nvars THEN "c_int32" ELSE "cl_mem"
ArgSize(kind) == IF kind = "c_int32" THEN 4 ELSE 8

\* lines 52-54: the clSetKernelArg calls; their status is not looked at
BindCalls(n, nvars, st) ==
  [k \in 1..n |-> Call("clSetKernelArg",
                       [idx |-> k - 1, kind |-> ArgKind(k - 1, n, nvars),
                        size |-> ArgSize(ArgKind(k - 1, n, nvars))], st[k], FALSE)]

\* line 57
EnqueueCall(global_size, local_size, wait, st) ==
  Call("clEnqueueNDRangeKernel",
       [work_dim |-> Len(EffectiveGlobal(global_size, local_size)),
        global |-> EffectiveGlobal(global_size, local_size),
        local |-> LocalArray(local_size), event |-> wait], st, TRUE)

\* variant: the caller goes on without waiting for the event
NoWait(d) == Idle

\* line 59: the caller is blocked in clWaitForEvents on the kernel's event
InWait(d) == [at |-> "clWaitForEvents", d |-> d, op |-> "__call__", span |-> "-"]

\* lines 51-64, up to the point where a wait=True call blocks on its event
Invoke(p, n, global_size, local_size, wait, st) ==
  /\ Begin
  /\ prog[p].state = "ok"
  /\ UNCHANGED <<devvars, progvars, cache, pending_copyin, filled>>
  /\ LET d == prog[p].device
         log == BindCalls(n, prog[p].vars, st)
                  \o <<EnqueueCall(global_size, local_size, wait, st[n + 1])>>
     IN
     /\ calls' = log
     /\ IF Raised(log)
        THEN /\ result' = Outcome("__call__", "OpenCL Error", <<DriverError(log)>>)
             /\ UNCHANGED <<cmdq, pc>>
        ELSE /\ cmdq' = [cmdq EXCEPT ![d] = Append(@, Cmd("kernel", "-", wait))]
             /\ IF wait
                THEN /\ pc' = InWait(d)
                     /\ result' = Outcome("__call__", "running", <<>>)
                ELSE /\ pc' = Idle
                     /\ result' = Outcome("__call__", "None", <<>>)

\* the event of a wait=True kernel is complete once the kernel left the queue
EventDone(q) == \A i \in 1..Len(q) : ~q[i].event
WaitCanReturn(q, st) == st # 0 \/ EventDone(q)

\* lines 59-63
WaitReturn(st) ==
  /\ pc.at = "clWaitForEvents"
  /\ WaitCanReturn(cmdq[pc.d], st[1])
  /\ UNCHANGED <<devvars, progvars, cache, memvars, nops, launch>>
  /\ LET log == Issue(<< Call("clWaitForEvents", [n |-> 1], st[1], TRUE),
                         Call("clGetEventProfilingInfo", [n |-> 0], st[2], TRUE),
                         Call("clGetEventProfilingInfo", [n |-> 1], st[3], TRUE) >>) IN
     /\ calls' = calls \o log
     /\ result' = IF Raised(log) THEN Outcome("__call__", "OpenCL Error", <<DriverError(log)>>)
                  ELSE Outcome("__call__", "None", <<"seconds">>)
     /\ pc' = Idle

\* --------------------------------------------------------- input universes
Ranks == {1, 2, 3}
SizeTuples(ranks) == UNION {[1..r -> 1..MaxDim] : r \in ranks}
LocalSizes(ranks) == {None} \cup {Some(t) : t \in SizeTuples(ranks)}
StatusVec(n) == [1..n -> Status]
OkVec(n) == [1..n -> {0}]
\* status vectors with at most one failure: enough where every call is checked,
\* since nothing is called after the first failure
OneFault(n) == {st \in StatusVec(n) : Cardinality({k \in 1..n : st[k] # 0}) <= 1}
Devs == 1..MaxOps
Progs == 1..MaxOps
Float32 == DType(FALSE, 4, <<>>)

\* the driver's side and the returns of blocking calls
DriverStep == \E d \in Devs : DriverComplete(d)
FinishStep == \E st \in Status : FinishReturn(st)
WaitStep == \E st \in OneFault(3) : WaitReturn(st)

\* The whole backend: every operation, on one device string, one source and one
\* size; the driver may fail the transfers and the blocking calls.
Next ==
  \/ \E st \in OkVec(6) : NewDevice(<<"G">>, st)
  \/ \E st \in OkVec(4) : Compile("k1", st)
  \/ \E d \in Devs : Alloc(d, 1, Float32, 1, 0)
  \/ \E d \in Devs : Free(d, 1, 0)
  \/ \E d \in Devs, src \in Spans, st \in Status : CopyIn(d, 1, src, st)
  \/ \E d \in Devs, dest \in OutSpans, st \in Status : CopyOut(d, dest, 1, st)
  \/ \E d \in Devs : Synchronize(d)
  \/ FinishStep
  \/ DriverStep
  \/ \E d \in Devs, st \in OkVec(4) : NewProgram(d, 0, st)
  \/ \E p \in Progs, st \in OkVec(2) : Destroy(p, st)
  \/ \E p \in Progs, wait \in BOOLEAN, st \in OkVec(1) : Invoke(p, 0, launch.global_size, launch.local_size, wait, st)
  \/ WaitStep

Spec == Init /\ [][Next]_vars

\* Device construction and compilation with every device string, every source
\* and every driver status.
NextDevice ==
  \/ \E device \in DeviceStrings, st \in OneFault(6) : NewDevice(device, st)
  \/ \E src \in Sources, st \in StatusVec(4) : Compile(src, st)

SpecDevice == Init /\ [][NextDevice]_vars

\* Programs on a device: construction, invocation and destruction with every
\* driver status.
NextProgram ==
  \/ \E st \in OkVec(6) : NewDevice(<<"G">>, st)
  \/ \E d \in Devs, v \in 0..MaxArgs, st \in OneFault(4) : NewProgram(d, v, st)
  \/ \E p \in Progs, st \in OneFault(2) : Destroy(p, st)
  \/ \E p \in Progs, n \in 0..MaxArgs, wait \in BOOLEAN : \E st \in StatusVec(n + 1) :
        Invoke(p, n, launch.global_size, launch.local_size, wait, st)
  \/ WaitStep
  \/ DriverStep

SpecProgram == Init /\ [][NextProgram]_vars

\* Argument binding: programs with every scalar count, invoked with every
\* argument count, with every status of the binding and enqueue calls.
NextBind ==
  \/ \E st \in OkVec(6) : NewDevice(<<"G">>, st)
  \/ \E d \in Devs, v \in 0..MaxArgs, st \in OkVec(4) : NewProgram(d, v, st)
  \/ \E p \in Progs, n \in 0..MaxArgs : \E st \in StatusVec(n + 1) :
        Invoke(p, n, launch.global_size, launch.local_size, FALSE, st)
  \/ DriverStep

SpecBind == Init /\ [][NextBind]_vars

\* Allocation: every element type and size, with the driver accepting or
\* refusing the creation and the release.
NextAlloc ==
  \/ \E st \in OkVec(6) : NewDevice(<<"G">>, st)
  \/ \E d \in Devs, size \in Sizes, dtype \in DTypes, buf \in MemHandles, st \in Status :
        Alloc(d, size, dtype, buf, st)
  \/ \E d \in Devs, buf \in MemHandles, st \in Status : Free(d, buf, st)

SpecAlloc == Init /\ [][NextAlloc]_vars

\* Dispatch: invocations with every global_size and local_size of rank 1 to 3
\* (and the empty local_size).
NextDispatch ==
  \/ \E st \in OkVec(6) : NewDevice(<<"G">>, st)
  \/ \E d \in Devs, st \in OkVec(4) : NewProgram(d, 0, st)
  \/ \E p \in Progs, st \in StatusVec(1) :
        Invoke(p, 0, launch.global_size, launch.local_size, FALSE, st)
  \/ DriverStep

Launches == {Launch(g, l) : g \in SizeTuples(Ranks), l \in LocalSizes(Ranks \cup {0})}
InitDispatch == InitWith(Launches)
SpecDispatch == InitDispatch /\ [][NextDispatch]_vars

\* ================================================================ claims
IsCall(c, fn) == c.fn = fn
CallsOf(fn) == {i \in 1..Len(calls) : calls[i].fn = fn}
Ready == {d \in Devs : dev[d].ready}
FirstReady == CHOOSE d \in Ready : \A e \in Ready : d <= e

\* C1: a compile request issued while no compiler context exists fails with the
\* configuration error and returns no bytes, whatever the persistent cache holds.
C1_CompileWithoutContextFails ==
  (result.op = "compile_cl" /\ compiler_context = 0)
    => (result.exc = "AssertionError" /\ result.val = NoBytes)

\* C2: the compiler context is written at most once; once a Device has been
\* constructed it is that first constructed Device, and it is never reassigned.
C2_ContextIsFirstDevice ==
  [][ /\ compiler_context # 0 => compiler_context' = compiler_context
      /\ Ready' # {} => compiler_context' = FirstReady' ]_vars

\* C3: a successful copy_in appends its source span to the Device's pending
\* list; between synchronizations each list only grows by appends, and only the
\* return of that Device's own queue drain (synchronize, also inside copy_out)
\* empties it; no other operation removes or reorders its elements.
C3_PendingGrowsUntilSynchronize ==
  [][ /\ \A d \in Devs :
           \/ pending_copyin'[d] = pending_copyin[d]
           \/ /\ result'.op = "copyin" /\ nops' = nops + 1
              /\ \E src \in Spans : pending_copyin'[d] = Append(pending_copyin[d], src)
           \/ /\ pc.at = "clFinish" /\ pc.d = d /\ pc' = Idle
              /\ pending_copyin'[d] = <<>>
      /\ (nops' = nops + 1 /\ result'.op = "copyin" /\ result'.exc = "None")
           => LET d == calls'[1].arg.queue IN
              pending_copyin'[d] = Append(pending_copyin[d], calls'[1].arg.span) ]_vars

\* two spans are retained in order while a different operation has run since
C3_Witness ==
  \E d \in Devs : /\ pending_copyin[d] = <<"h1", "h2">>
                  /\ result.op \in {"_free", "_alloc", "compile_cl", "CLDevice"}

\* C4: in every state where copy_out has returned successfully, the destination
\* span is fully written, the Device's queue has drained and its pending list
\* is empty.
C4_CopyOutReturnsAfterRead ==
  (result.op = "copyout" /\ result.exc = "None")
    => LET d == calls[1].arg.queue IN
       /\ calls[1].arg.span \in filled
       /\ cmdq[d] = <<>>
       /\ pending_copyin[d] = <<>>

\* copy_out is blocked in the drain while its read is still in the queue behind
\* an unfinished copy-in
C4_BlockedInDrain ==
  /\ pc.at = "clFinish" /\ pc.op = "copyout"
  /\ Len(cmdq[pc.d]) = 2
  /\ pc.span \notin filled

\* copy_out has returned successfully
C4_Witness == result.op = "copyout" /\ result.exc = "None" /\ "o1" \in filled

\* C5: the pending list is emptied only by a queue drain that reported success,
\* hence with no command left in the queue; when the drain reports a failure,
\* synchronize fails and the list is unchanged.
C5_ClearOnlyAfterDrain ==
  [][ \A d \in Devs :
        /\ (pending_copyin[d] # <<>> /\ pending_copyin'[d] = <<>>)
             => /\ cmdq[d] = <<>>
                /\ pc.at = "clFinish" /\ pc.d = d
                /\ Last(calls').fn = "clFinish" /\ Last(calls').st = 0
        /\ (pc.at = "clFinish" /\ pc.d = d /\ pc' = Idle /\ Last(calls').st # 0)
             => /\ result'.exc = "OpenCL Error"
                /\ pending_copyin'[d] = pending_copyin[d] ]_vars

\* a synchronize failed while a copy-in was still in the queue, and its span is
\* still retained
C5_Witness ==
  \E d \in Devs : /\ result.op = "synchronize" /\ result.exc = "OpenCL Error"
                  /\ pending_copyin[d] # <<>>
                  /\ \E i \in 1..Len(cmdq[d]) : cmdq[d][i].kind = "write"
                  /\ Last(calls).arg.d = d

\* C6: whenever a driver call of an operation returns a non-success status, the
\* operation fails with a driver error and issues no further driver call.
C6_EveryStatusChecked ==
  \A i \in 1..Len(calls) :
    calls[i].st # 0 => (i = Len(calls) /\ pc = Idle /\ result.exc = "OpenCL Error")

\* C7: an invocation whose local_size has another rank than global_size fails
\* and enqueues no kernel.
C7_RankMismatchRejected ==
  (result.op = "__call__" /\ launch.local_size.some
     /\ Len(launch.local_size.v) # Len(launch.global_size))
    => (result.exc \notin {"None", "running"} /\ CallsOf("clEnqueueNDRangeKernel") = {})

\* C8: for global_size and local_size of equal rank r in 1..3 an invocation
\* enqueues a dispatch of work dimension r, work-group shape local_size and
\* global size global_size[i] * local_size[i]; without local_size it enqueues
\* global_size unchanged and no work-group shape.
C8_DispatchIsProduct ==
  result.op = "__call__" =>
    LET g == launch.global_size
        l == launch.local_size
        enq == calls[Len(calls)].arg
    IN
    /\ CallsOf("clEnqueueNDRangeKernel") = {Len(calls)}
    /\ (l.some /\ Len(l.v) = Len(g)) =>
         /\ enq.work_dim = Len(g)
         /\ enq.global = [i \in 1..Len(g) |-> g[i] * l.v[i]]
         /\ enq.local = Some(l.v)
    /\ ~l.some =>
         /\ enq.work_dim = Len(g)
         /\ enq.global = g
         /\ enq.local = None

\* a rank-3 dispatch with a work-group shape has been enqueued
C8_Witness ==
  /\ result.op = "__call__" /\ result.exc = "None"
  /\ launch.global_size = <<2, 1, 2>> /\ launch.local_size = Some(<<1, 2, 2>>)
  /\ Last(calls).arg.global = <<2, 2, 4>>

\* C9: every compile call that creates a driver program object also releases
\* it before the call ends, whether it returns bytes or fails.
C9_CompileReleasesProgram ==
  result.op = "compile_cl" =>
    \A i \in CallsOf("clCreateProgramWithSource") :
      calls[i].st = 0 => \E j \in CallsOf("clReleaseProgram") : j > i

\* C10: destroying a constructed Program issues the kernel release and then the
\* program release, each exactly once, so that both handles have been released
\* when the destruction is over.
C10_DestroyReleasesBoth ==
  (result.op = "__del__" /\ result.exc # "AttributeError")
    => /\ Len(calls) = 2
       /\ calls[1].fn = "clReleaseKernel"
       /\ calls[2].fn = "clReleaseProgram"

\* the platform and device enumeration queries in the log of the last operation
EnumCalls(log) ==
  {i \in 1..Len(log) : log[i].fn \in {"clGetPlatformIDs", "clGetDeviceIDs"}}

\* a Device construction, completed or failed, is one step of NewDevice
Constructs == ndev' = ndev + 1

\* C11 as stated: only the first Device construction ever queries the driver's
\* enumeration; every later construction issues no enumeration query.
C11_OnlyFirstConstructionEnumerates ==
  [][ (Constructs /\ ndev >= 1) => EnumCalls(calls') = {} ]_vars

\* C11 amended: a construction queries the enumeration exactly when it finds
\* the process-wide identifier list unset; once a construction has set the
\* list, the list is never written again and every later construction issues
\* no enumeration query.
C11_EnumeratesOnlyWhileUnset ==
  [][ /\ Constructs =>
           /\ device_ids.set => EnumCalls(calls') = {}
           /\ ~device_ids.set =>
                /\ calls' # <<>>
                /\ EnumCalls(calls') = 1..Min(Len(calls'), 4)
      /\ ~Constructs => EnumCalls(calls') = {}
      /\ device_ids.set => device_ids' = device_ids ]_vars

\* a second construction has completed on the cached list without a query
C11_Witness ==
  /\ result.op = "CLDevice" /\ result.exc = "None"
  /\ Cardinality(Ready) >= 2
  /\ device_ids.set /\ EnumCalls(calls) = {}

\* the driver compilation calls in a log
CompileCalls(log) ==
  {i \in 1..Len(log) : log[i].fn \in {"clCreateProgramWithSource", "clBuildProgram"}}

C13_BuildFailureCarriesLog ==
  (result.op = "compile_cl" /\ \E i \in CallsOf("clBuildProgram") : calls[i].st # 0) =>
    LET i == CHOOSE j \in CallsOf("clBuildProgram") : TRUE
        src == calls[i].arg.src
    IN
    /\ result.exc = "OpenCL Compile Error"
    /\ cache[src] = NoBytes
    /\ Len(calls) = i + 2
    /\ calls[i + 1].fn = "clGetProgramBuildInfo" /\ calls[i + 1].arg.n = 0
    /\ calls[i + 2].fn = "clGetProgramBuildInfo" /\ calls[i + 2].arg.n = 1
    /\ (calls[i + 1].st = 0 /\ calls[i + 2].st = 0) => result.val = BuildLog(src)

\* a build failed and the compile error carries the driver's log
C13_Witness ==
  /\ result.op = "compile_cl" /\ result.exc = "OpenCL Compile Error"
  /\ result.val = BuildLog("bad")
  /\ calls[2].fn = "clBuildProgram" /\ calls[2].st # 0

\* C14: an invocation with n positional arguments on a program with v scalars
\* binds every argument once, argument i at kernel index i for i in 0..n-1, in
\* that order: as a 4-byte integer when i >= n - v, as a buffer handle when
\* i < n - v.
C14_ArgumentsBoundByPosition ==
  [][ \A p \in Progs, n \in 0..MaxArgs :
        ( /\ nops' = nops + 1 /\ result'.op = "__call__"
          /\ prog[p].state = "ok" /\ Len(calls') = n + 1
          /\ Invoke(p, n, launch.global_size, launch.local_size,
                    calls'[n + 1].arg.event, [k \in 1..(n + 1) |-> calls'[k].st]) )
        => LET v == prog[p].vars IN
           /\ {k \in 1..Len(calls') : calls'[k].fn = "clSetKernelArg"} = 1..n
           /\ \A i \in 0..(n - 1) :
                LET bound == calls'[i + 1].arg IN
                /\ bound.idx = i
                /\ i >= n - v => (bound.kind = "c_int32" /\ bound.size = 4)
                /\ i < n - v => bound.kind = "cl_mem" ]_vars

\* two arguments were bound on a program with one scalar: a buffer handle at
\* index 0, a 4-byte integer at index 1
C14_Witness ==
  /\ result.op = "__call__" /\ Len(calls) >= 3
  /\ calls[1].fn = "clSetKernelArg" /\ calls[1].arg.idx = 0 /\ calls[1].arg.kind = "cl_mem"
  /\ calls[2].fn = "clSetKernelArg" /\ calls[2].arg.idx = 1 /\ calls[2].arg.kind = "c_int32"
  /\ calls[3].fn = "clEnqueueNDRangeKernel"

\* C15: _alloc of an image type asks the driver for a 4-channel image, of
\* half-float channels when the itemsize is 2 and float channels when it is 4,
\* of width shape[1] and height shape[0]; with another itemsize it fails on the
\* format lookup before any driver call; of any other type it asks for a linear
\* buffer of size * itemsize bytes.
C15_AllocByElementType ==
  [][ \A d \in Devs, size \in Sizes, dtype \in DTypes :
        ( /\ nops' = nops + 1 /\ result'.op = "_alloc"
          /\ \E buf \in MemHandles, st \in Status : Alloc(d, size, dtype, buf, st) )
        => /\ (dtype.image /\ dtype.itemsize \in {2, 4}) =>
                /\ Len(calls') = 1 /\ calls'[1].fn = "clCreateImage2D"
                /\ calls'[1].arg.order = "CL_RGBA"
                /\ calls'[1].arg.type =
                     (IF dtype.itemsize = 2 THEN "CL_HALF_FLOAT" ELSE "CL_FLOAT")
                /\ calls'[1].arg.width = dtype.shape[2]
                /\ calls'[1].arg.height = dtype.shape[1]
           /\ (dtype.image /\ dtype.itemsize \notin {2, 4}) =>
                /\ result'.exc = "KeyError"
                /\ calls' = <<>>
           /\ ~dtype.image =>
                /\ Len(calls') = 1 /\ calls'[1].fn = "clCreateBuffer"
                /\ calls'[1].arg.bytes = size * dtype.itemsize ]_vars

\* a half-float image of shape (1, 2) was created 2 wide and 1 high
C15_Witness ==
  /\ result.op = "_alloc" /\ result.exc = "None"
  /\ calls[1].fn = "clCreateImage2D" /\ calls[1].arg.type = "CL_HALF_FLOAT"
  /\ calls[1].arg.width = 2 /\ calls[1].arg.height = 1

\* an invocation that returned a value
Timed(r) == r.op = "__call__" /\ r.exc = "None" /\ r.val # <<>>

\* C16: an invocation with wait=True does not return in the step that enqueues
\* its kernel; it returns only once the kernel has left the queue, and then with
\* a timing value. An invocation with wait=False and a copyin return in the
\* step that enqueues their command, which is then still in the queue, and
\* return no timing value.
C16_WaitBlocksUntilComplete ==
  [][ /\ (pc.at = "clWaitForEvents" /\ pc' = Idle /\ result'.exc = "None")
           => /\ EventDone(cmdq[pc.d])
              /\ result'.val = <<"seconds">>
      /\ (nops' = nops + 1 /\ result'.op = "__call__" /\ ~Raised(calls'))
           => IF Last(calls').arg.event
              THEN /\ pc'.at = "clWaitForEvents" /\ result'.exc = "running"
                   /\ ~EventDone(cmdq'[pc'.d])
              ELSE /\ pc' = Idle /\ result'.exc = "None" /\ result'.val = <<>>
                   /\ \E d \in Devs : cmdq'[d] = Append(cmdq[d], Cmd("kernel", "-", FALSE))
      /\ (nops' = nops + 1 /\ result'.op = "copyin" /\ result'.exc = "None")
           => LET d == calls'[1].arg.queue IN
              /\ pc' = Idle /\ result'.val = <<>>
              /\ Len(cmdq'[d]) = Len(cmdq[d]) + 1 /\ Last(cmdq'[d]).kind = "write"
      /\ (Timed(result') /\ ~Timed(result)) => pc.at = "clWaitForEvents" ]_vars

\* an invocation with wait=True has returned its timing value
C16_Witness ==
  /\ result.op = "__call__" /\ result.exc = "None" /\ result.val = <<"seconds">>
  /\ CallsOf("clWaitForEvents") # {} /\ pc = Idle

\* C17: the compiler context, when set, is a Device whose construction
\* completed: it has its context, its queue, its pending list and its allocator.
C17_ContextIsConstructedDevice ==
  compiler_context # 0 =>
    /\ dev[compiler_context].context
    /\ dev[compiler_context].queue
    /\ dev[compiler_context].ready

\* C18: the device-identifier list is unset, or holds exactly the identifiers
\* the driver returned from a successful enumeration.
C18_DeviceIdsUnsetOrPopulated ==
  device_ids.set => device_ids.ids = DriverDeviceIds

\* C19: once a Program whose construction failed after the program handle was
\* created has been destroyed, that handle has been released.
C19_FailedProgramReleased ==
  \A p \in Progs :
    (prog[p].state = "deleted" /\ handles[p].kernel = "none"
       /\ handles[p].program # "none")
      => handles[p].program = "released"
====
